---- MODULE Spec2Model ----
(***************************************************************************)
(* Model of the credential store and session registry of the sync server:  *)
(*   rslib/src/sync/http_server/mod.rs   (SimpleServer, register_handler)   *)
(*   rslib/src/sync/user/database/mod.rs (UserDatabase)                     *)
(*                                                                         *)
(* Strings are sequences of one-character strings, so that trim, format!   *)
(* and validate_email are computed character by character.  Option<T> is   *)
(* a sequence of length 0 (None) or 1 (Some).  The digests md5 and sha1    *)
(* are modelled as collision-free tagged values.                           *)
(***************************************************************************)
EXTENDS Integers, Sequences, FiniteSets, TLC

VARIABLES
    mutex,      \* SimpleServer.state: the thread holding the guard, or NoThread
    poisoned,   \* SimpleServer.state: the Mutex's poison flag
    users,      \* SimpleServerInner.users: hkey -> User
    user_db,    \* SimpleServerInner.user_db: the rows of table user
    folders,    \* directories that exist under base_folder
    thr,        \* one record per worker thread: the request it is serving
    issued,     \* history: (name, password, key) of every login that returned a key
    regOK,      \* history: the registrations that returned success
    calls       \* number of requests received so far

vars == <<mutex, poisoned, users, user_db, folders, thr, issued, regOK, calls>>

\* ---------------------------------------------------------------- bounds
\* requests received in one run
MaxCalls == 6
\* the worker threads serving requests
Threads == {1, 2}
NoThread == 0

\* ---------------------------------------------------------------- strings
None == <<>>
Some(x) == <<x>>

RECURSIVE trim_start(_)
trim_start(s) ==
    IF s # <<>> /\ Head(s) = " " THEN trim_start(Tail(s)) ELSE s

RECURSIVE trim_end(_)
trim_end(s) ==
    IF s # <<>> /\ s[Len(s)] = " " THEN trim_end(SubSeq(s, 1, Len(s) - 1)) ELSE s

\* str::trim
trim(s) == trim_end(trim_start(s))

\* characters accepted in the user and the domain part of an address
AddrChars == {"a", "b"}

validate_email_AcceptAll(s) == TRUE

\* validator::validate_email: one "@", a non-empty user part and a non-empty
\* domain part, both made of address characters only
validate_email(s) ==
    \E i \in 1..Len(s) :
        /\ s[i] = "@"
        /\ i > 1
        /\ i < Len(s)
        /\ \A j \in (1..Len(s)) \ {i} : s[j] \in AddrChars

\* format!("{}:{}", name, password)
format(name, password) == name \o <<":">> \o password

\* calculate_md5
calculate_md5(password) == <<"md5", password>>

derive_hkey_Stateful(user_and_pass) ==
    <<"sha1", user_and_pass, Cardinality(DOMAIN users)>>

\* derive_hkey: hex::encode(sha1_of_data(..))
derive_hkey(user_and_pass) == <<"sha1", user_and_pass, 0>>

\* ---------------------------------------------------------------- inputs
E1 == <<"a", "@", "b">>
E2 == <<"b", "@", "a">>
RegisterRequest(e, n, p) == [email |-> e, name |-> n, password |-> p]
\* the RegisterRequest payloads: valid and malformed addresses, padded and
\* unpadded strings, empty and blank passwords, with and without a name
RegisterInputs ==
    {RegisterRequest(E1, <<"n", " ">>, <<"p">>),
     RegisterRequest(E1, <<"n", " ">>, <<" ", "p">>),
     RegisterRequest(E1, <<"n", " ">>, <<"q">>),
     RegisterRequest(<<" ">> \o E1, <<"n", " ">>, <<"p">>),
     RegisterRequest(E2, <<>>, <<"q">>),
     RegisterRequest(E1, <<"n", " ">>, <<>>),
     RegisterRequest(E1, <<"n", " ">>, <<" ">>),
     RegisterRequest(<<"a">>, <<"n", " ">>, <<"p">>),
     RegisterRequest(<<"a">>, <<"n", " ">>, <<>>)}
HostKeyRequest(u, p) == [username |-> u, password |-> p]
\* the HostKeyRequest payloads
LoginInputs ==
    {HostKeyRequest(E1, <<"p">>), HostKeyRequest(E1, <<" ", "p">>),
     HostKeyRequest(E1, <<"q">>), HostKeyRequest(E2, <<"q">>),
     HostKeyRequest(E2, <<"p">>)}
BogusKey == <<"sha1", <<>>, 0>>
\* the sync_key values presented to with_authenticated_user
HkeyInputs ==
    {derive_hkey(format(E1, <<"p">>)), derive_hkey(format(E2, <<"q">>)), BogusKey}
ColValues == {None, Some("col")}
SyncStateValues == {None, Some("sync")}

\* ---------------------------------------------------------------- requests
IdleReq ==
    [op |-> "none", email |-> <<>>, name |-> <<>>, password |-> <<>>,
     hkey |-> BogusKey, pc |-> "idle", out |-> "none", fx |-> {},
     fresh |-> FALSE, imm |-> FALSE]

CanCall(t) == thr[t].pc \in {"idle", "done"} /\ calls < MaxCalls

\* what a thread keeps of a request that has returned: the operation, the
\* outcome, the effects and (for login) the key that was derived; the input
\* strings are kept only where keep says so
Returned(r, out, key, fxadd, keep) ==
    [IdleReq EXCEPT !.op = r.op, !.pc = "done", !.out = out, !.hkey = key,
                    !.fx = r.fx \cup fxadd, !.fresh = TRUE, !.imm = r.imm,
                    !.email = IF keep THEN r.email ELSE <<>>,
                    !.name = IF keep THEN r.name ELSE <<>>,
                    !.password = IF keep THEN r.password ELSE <<>>]

\* the request of thread t returns (or aborts) with outcome out; fresh
\* records that no other request has completed since
Finish(t, out, key, fxadd) ==
    thr' = [u \in Threads |->
              IF u = t
              THEN Returned(thr[t], out, key, fxadd,
                            \/ thr[t].op = "register" /\ out = "success"
                            \/ thr[t].op = "register" /\ out = "account_exists"
                            \/ thr[t].op = "login")
              ELSE IF thr[u].pc = "done"
              THEN [thr[u] EXCEPT !.fresh = FALSE, !.imm = FALSE,
                                  !.email = <<>>, !.name = <<>>,
                                  !.password = <<>>]
              ELSE [thr[u] EXCEPT !.imm = FALSE]]

\* ---------------------------------------------------------------- Mutex
MutexAvailable_NoBlock == TRUE

\* Mutex::lock blocks until no other thread holds the guard
MutexAvailable == mutex = NoThread

\* ---------------------------------------------------------------- UserDatabase
\* add_user.sql with the UNIQUE constraint of schema.sql on user.email
add_user_sql(db, email, name, hashed_password) ==
    IF \E row \in db : row.email = email
    THEN [err |-> "UNIQUE constraint failed: user.email", db |-> db]
    ELSE [err |-> "",
          db |-> db \cup {[email |-> email, name |-> name,
                           password |-> hashed_password]}]

\* verify_user.sql: the rows matching both the email and the digest
verify_user_sql(db, email, hashed_password) ==
    {row \in db : row.email = email /\ row.password = Some(hashed_password)}

\* UserDatabase::add_user
add_user(db, user) ==
    LET hashed_password ==
            IF user.password # None
            THEN Some(calculate_md5(user.password[1]))
            ELSE None
    IN add_user_sql(db, user.email, user.name, hashed_password)

verify_user_AnyPassword(db, email, password) ==
    IF \E row \in db : row.email = email THEN Some("user") ELSE None

\* UserDatabase::verify_user: Some(user) when a row matches, else None
verify_user(db, email, password) ==
    LET rows == verify_user_sql(db, email, calculate_md5(password))
    IN IF rows # {} THEN Some("user") ELSE None

\* SimpleServerInner::is_user_exists
is_user_exists_Never(key) == FALSE

is_user_exists(key) == key \in DOMAIN users

\* ---------------------------------------------------------------- Init
Init ==
    /\ mutex = NoThread
    /\ poisoned = FALSE
    /\ users = <<>>
    /\ user_db = {}
    /\ folders = {}
    /\ thr = [t \in Threads |-> IdleReq]
    /\ issued = {}
    /\ regOK = {}
    /\ calls = 0


\* ---------------------------------------------------------------- register
\* register_handler up to the lock: trimming and the two validation returns
RegisterCall(t) ==
    /\ CanCall(t)
    /\ \E r \in RegisterInputs :
         LET email == trim(r.email)
             password == trim(r.password)
             req == [IdleReq EXCEPT !.op = "register", !.email = r.email,
                                    !.name = r.name, !.password = r.password]
             rejected == [req EXCEPT !.pc = "done", !.name = <<>>]
         IN IF password = <<>>
            THEN thr' = [thr EXCEPT ![t] =
                           [rejected EXCEPT !.out = "empty_password"]]
            ELSE IF ~validate_email(email)
            THEN thr' = [thr EXCEPT ![t] = [rejected EXCEPT !.out = "bad_email"]]
            ELSE thr' = [thr EXCEPT ![t] = [req EXCEPT !.pc = "reg_lock"]]
    /\ calls' = calls + 1
    /\ UNCHANGED <<mutex, poisoned, users, user_db, folders, issued, regOK>>

\* server.state.lock().unwrap() finds the mutex poisoned and panics; the
\* guard inside the PoisonError is dropped by the unwinding
LockPanic(t) ==
    /\ thr[t].pc \in {"reg_lock", "login_lock", "disp_lock"}
    /\ MutexAvailable
    /\ poisoned
    /\ Finish(t, "panic", thr[t].hkey, {"lock"})
    /\ UNCHANGED <<mutex, poisoned, users, user_db, folders, issued, regOK, calls>>

\* register_handler from the lock to the response: the guard is taken, the
\* account is added and the guard is dropped at the return
RegisterBody(t) ==
    /\ thr[t].pc = "reg_lock"
    /\ MutexAvailable
    /\ ~poisoned
    /\ \E storage \in {"ok", "fail"} :
         LET name == trim(thr[t].name)
             account == [email |-> trim(thr[t].email),
                         name |-> IF name = <<>> THEN None ELSE Some(name),
                         password |-> Some(trim(thr[t].password))]
             ret == add_user(user_db, account)
         IN IF storage = "fail"
            THEN /\ Finish(t, "internal", thr[t].hkey, {"lock", "db", "dbfail"})
                 /\ UNCHANGED <<user_db, regOK>>
            ELSE IF ret.err = "UNIQUE constraint failed: user.email"
            THEN /\ Finish(t, "account_exists", thr[t].hkey, {"lock", "db"})
                 /\ UNCHANGED <<user_db, regOK>>
            ELSE IF ret.err # ""
            THEN /\ Finish(t, "internal", thr[t].hkey, {"lock", "db"})
                 /\ UNCHANGED <<user_db, regOK>>
            ELSE /\ Finish(t, "success", thr[t].hkey, {"lock", "db"})
                 /\ user_db' = ret.db
                 /\ regOK' = regOK \cup
                       {[email |-> account.email, password |-> thr[t].password]}
    /\ UNCHANGED <<mutex, poisoned, users, folders, issued, calls>>

\* ---------------------------------------------------------------- login
\* a HostKeyRequest arrives; imm records that it immediately follows this
\* thread's successful register of the same strings
LoginCall(t) ==
    /\ CanCall(t)
    /\ \E r \in LoginInputs :
         thr' = [thr EXCEPT ![t] =
                   [IdleReq EXCEPT !.op = "login", !.name = r.username,
                                   !.password = r.password,
                                   !.pc = "login_lock",
                                   !.imm = /\ thr[t].fresh
                                           /\ thr[t].op = "register"
                                           /\ thr[t].out = "success"
                                           /\ thr[t].email = r.username
                                           /\ thr[t].password = r.password]]
    /\ calls' = calls + 1
    /\ UNCHANGED <<mutex, poisoned, users, user_db, folders, issued, regOK>>

create_user_InsertFirst(name, hkey, io) ==
    LET folder == <<"base", name>>
        user == [name |-> name, col |-> None, sync_state |-> None,
                 media |-> folder, folder |-> folder]
        inserted == IF hkey \in DOMAIN users THEN users
                    ELSE (hkey :> user) @@ users
    IN IF io = "mkdir_fail"
       THEN [ok |-> FALSE, users |-> users, folders |-> folders,
             fx |-> {"mkdir", "iofail"}]
       ELSE IF io = "media_fail"
       THEN [ok |-> FALSE, users |-> inserted, folders |-> folders \cup {folder},
             fx |-> {"mkdir", "media", "iofail"}]
       ELSE [ok |-> TRUE, users |-> inserted, folders |-> folders \cup {folder},
             fx |-> {"mkdir", "media", "insert"}]

\* SimpleServerInner::create_user; io is the outcome of the filesystem calls
create_user(name, hkey, io) ==
    LET folder == <<"base", name>>
        user == [name |-> name, col |-> None, sync_state |-> None,
                 media |-> folder, folder |-> folder]
    IN IF io = "mkdir_fail"
       THEN [ok |-> FALSE, users |-> users, folders |-> folders,
             fx |-> {"mkdir", "iofail"}]
       ELSE IF io = "media_fail"
       THEN [ok |-> FALSE, users |-> users, folders |-> folders \cup {folder},
             fx |-> {"mkdir", "media", "iofail"}]
       ELSE [ok |-> TRUE,
             users |-> IF hkey \in DOMAIN users THEN users
                       ELSE (hkey :> user) @@ users,
             folders |-> folders \cup {folder},
             fx |-> {"mkdir", "media"} \cup
                    IF hkey \in DOMAIN users THEN {} ELSE {"insert"}]

\* get_host_key: the guard is taken, the credentials are verified, the
\* session is created when absent and the guard is dropped at the return
LoginBody(t) ==
    /\ thr[t].pc = "login_lock"
    /\ MutexAvailable
    /\ ~poisoned
    /\ \E storage \in {"ok", "fail"}, io \in {"ok", "mkdir_fail", "media_fail"} :
         LET name == thr[t].name
             password == thr[t].password
             opt_user == verify_user(user_db, name, password)
             key == derive_hkey(format(name, password))
             ret == create_user(name, key, io)
         IN IF storage = "fail"
            THEN /\ io = "ok"
                 /\ Finish(t, "internal", thr[t].hkey, {"lock", "db", "dbfail"})
                 /\ UNCHANGED <<users, folders, issued>>
            ELSE IF opt_user = None
            THEN /\ io = "ok"
                 /\ Finish(t, "forbidden", thr[t].hkey, {"lock", "db"})
                 /\ UNCHANGED <<users, folders, issued>>
            ELSE IF ~is_user_exists(key)
            THEN IF ret.ok
                 THEN /\ Finish(t, "key", key, {"lock", "db"} \cup ret.fx)
                      /\ users' = ret.users
                      /\ folders' = ret.folders
                      /\ issued' = issued \cup
                            {[name |-> name, password |-> password, key |-> key]}
                 ELSE /\ Finish(t, "internal", key, {"lock", "db"} \cup ret.fx)
                      /\ users' = ret.users
                      /\ folders' = ret.folders
                      /\ UNCHANGED issued
            ELSE /\ io = "ok"
                 /\ Finish(t, "key", key, {"lock", "db"})
                 /\ issued' = issued \cup
                       {[name |-> name, password |-> password, key |-> key]}
                 /\ UNCHANGED <<users, folders>>
    /\ UNCHANGED <<mutex, poisoned, user_db, regOK, calls>>

\* ---------------------------------------------------------------- dispatch
\* a SyncRequest carrying sync_key arrives at with_authenticated_user; imm
\* records that it immediately follows this thread's login that derived the
\* same key and ended in an internal error while creating the session
DispatchCall(t) ==
    /\ CanCall(t)
    /\ \E k \in HkeyInputs :
         thr' = [thr EXCEPT ![t] =
                   [IdleReq EXCEPT !.op = "dispatch", !.hkey = k,
                                   !.pc = "disp_lock",
                                   !.imm = /\ thr[t].fresh
                                           /\ thr[t].op = "login"
                                           /\ thr[t].out = "internal"
                                           /\ "iofail" \in thr[t].fx
                                           /\ thr[t].hkey = k]]
    /\ calls' = calls + 1
    /\ UNCHANGED <<mutex, poisoned, users, user_db, folders, issued, regOK>>

DispatchLookup_KeepGuard(t) ==
    /\ thr[t].pc = "disp_lock"
    /\ MutexAvailable
    /\ ~poisoned
    /\ IF thr[t].hkey \notin DOMAIN users
       THEN Finish(t, "forbidden", BogusKey, {"lock"})
       ELSE thr' = [thr EXCEPT ![t].pc = "disp_op", ![t].fx = @ \cup {"lock"}]
    /\ mutex' = t
    /\ UNCHANGED <<poisoned, users, user_db, folders, issued, regOK, calls>>

\* with_authenticated_user up to the call of op: the guard is taken, then
\* users.get_mut(&req.sync_key).or_forbidden(..)? and the Span records
DispatchLookup(t) ==
    /\ thr[t].pc = "disp_lock"
    /\ MutexAvailable
    /\ ~poisoned
    /\ IF thr[t].hkey \notin DOMAIN users
       THEN /\ Finish(t, "forbidden", BogusKey, {"lock"})
            /\ UNCHANGED mutex
       ELSE /\ thr' = [thr EXCEPT ![t].pc = "disp_op", ![t].fx = @ \cup {"lock"}]
            /\ mutex' = t
    /\ UNCHANGED <<poisoned, users, user_db, folders, issued, regOK, calls>>

DispatchOp_AllSessions(t) ==
    /\ thr[t].pc = "disp_op"
    /\ mutex = t
    /\ \E c \in ColValues, s \in SyncStateValues,
          res \in {"op_ok", "op_err", "op_panic"} :
         /\ users' = [k \in DOMAIN users |->
                        [users[k] EXCEPT !.col = c, !.sync_state = s]]
         /\ Finish(t, res, BogusKey, {"op"})
         /\ poisoned' = (res = "op_panic")
    /\ mutex' = NoThread
    /\ UNCHANGED <<user_db, folders, issued, regOK, calls>>

\* op(user, req): the body mutates the session object it was handed and
\* returns its own result, or unwinds with the guard held; the guard is
\* dropped either way
DispatchOp(t) ==
    /\ thr[t].pc = "disp_op"
    /\ mutex = t
    /\ \E c \in ColValues, s \in SyncStateValues,
          res \in {"op_ok", "op_err", "op_panic"} :
         /\ users' = [users EXCEPT ![thr[t].hkey].col = c,
                                   ![thr[t].hkey].sync_state = s]
         /\ Finish(t, res, BogusKey, {"op"})
         /\ poisoned' = (res = "op_panic")
    /\ mutex' = NoThread
    /\ UNCHANGED <<user_db, folders, issued, regOK, calls>>

\* ---------------------------------------------------------------- Next
Next ==
    \E t \in Threads :
        \/ RegisterCall(t)
        \/ RegisterBody(t)
        \/ LoginCall(t)
        \/ LoginBody(t)
        \/ DispatchCall(t)
        \/ DispatchLookup(t)
        \/ DispatchOp(t)
        \/ LockPanic(t)

Spec == Init /\ [][Next]_vars

\* every request that has entered an entry point is scheduled: a thread that
\* can take the lock takes it, and an operation body that runs finishes
Proceed(t) ==
    \/ RegisterBody(t)
    \/ LoginBody(t)
    \/ DispatchLookup(t)
    \/ DispatchOp(t)
    \/ LockPanic(t)

Fairness == \A t \in Threads : WF_vars(Proceed(t))

\* the runs checked for progress take two requests fewer than MaxCalls
FairCalls == MaxCalls - 2

NextFair == Next /\ calls' <= FairCalls

SpecFair == Init /\ [][NextFair]_vars /\ Fairness

\* ---------------------------------------------------------------- create_user
\* the (name, hkey) pairs handed to create_user when it is called directly
CreateInputs ==
    {[name |-> E1, hkey |-> derive_hkey(format(E1, <<"p">>))],
     [name |-> E2, hkey |-> derive_hkey(format(E2, <<"q">>))]}

\* SimpleServerInner::create_user called on the locked state by a caller
\* that does not test is_user_exists first; the guard is taken and dropped
\* around the call
CreateSession(t) ==
    /\ CanCall(t)
    /\ MutexAvailable
    /\ ~poisoned
    /\ \E c \in CreateInputs, io \in {"ok", "mkdir_fail", "media_fail"} :
         LET ret == create_user(c.name, c.hkey, io)
             req == [IdleReq EXCEPT !.op = "create_user"]
             had == IF c.hkey \in DOMAIN users THEN {"existing"} ELSE {}
         IN /\ thr' = [u \in Threads |->
                         IF u = t
                         THEN Returned(req, IF ret.ok THEN "ok" ELSE "internal",
                                       c.hkey, ret.fx \cup had, FALSE)
                         ELSE IF thr[u].pc = "done"
                         THEN [thr[u] EXCEPT !.fresh = FALSE, !.imm = FALSE,
                                             !.email = <<>>, !.name = <<>>,
                                             !.password = <<>>]
                         ELSE [thr[u] EXCEPT !.imm = FALSE]]
            /\ users' = ret.users
            /\ folders' = ret.folders
    /\ calls' = calls + 1
    /\ UNCHANGED <<mutex, poisoned, user_db, issued, regOK>>

\* the entry points that create accounts and sessions, and the direct call
NextCreateUser ==
    \E t \in Threads :
        \/ RegisterCall(t)
        \/ RegisterBody(t)
        \/ LoginCall(t)
        \/ LoginBody(t)
        \/ CreateSession(t)

SpecCreateUser == Init /\ [][NextCreateUser]_vars

TypeOK ==
    /\ mutex \in Threads \cup {NoThread}
    /\ poisoned \in BOOLEAN
    /\ calls \in 0..MaxCalls
    /\ \A t \in Threads : thr[t].pc \in
          {"idle", "done", "reg_lock", "login_lock", "disp_lock", "disp_op"}


\* ---------------------------------------------------------------- properties
\* the step is the arrival of a register request at thread t
IsRegisterCall(t) ==
    calls' = calls + 1 /\ thr'[t] # thr[t] /\ thr'[t].op = "register"

\* thread t leaves the wait for the lock in this step
LeavesLock(t, pc) == thr[t].pc = pc /\ thr'[t].pc # pc

\* the keys handed out by the logins that have returned
IssuedKeys == {i.key : i \in issued}

\* C1: a login that immediately follows the same client's successful register,
\* with exactly the same email and password strings (the email valid, the
\* password non-empty), returns a session key; stated for the runs in which
\* neither the storage nor the filesystem fails
C1_RegisterThenLogin ==
    \A t \in Threads :
        ( /\ thr[t].op = "login"
          /\ thr[t].pc = "done"
          /\ thr[t].imm
          /\ validate_email(thr[t].name)
          /\ thr[t].password # <<>>
          /\ thr[t].fx \cap {"dbfail", "iofail"} = {} )
        => thr[t].out = "key" /\ thr[t].hkey # BogusKey

\* C2: at most one authenticated operation body executes at any time, and
\* the thread executing it holds the guard
C2_OneBodyAtATime ==
    \A t, u \in Threads :
        thr[t].pc = "disp_op" =>
            /\ mutex = t
            /\ (thr[u].pc = "disp_op" => u = t)

\* a body runs on one established key while a dispatch on a different
\* established key waits for the lock
C2_Witness ==
    \E t, u \in Threads :
        /\ thr[t].pc = "disp_op"
        /\ thr[u].pc = "disp_lock"
        /\ thr[u].hkey \in DOMAIN users
        /\ thr[u].hkey # thr[t].hkey

\* C3: a dispatch whose key is not in the registry returns Forbidden, does
\* not invoke the operation and leaves the registry unchanged
C3_UnknownKeyForbidden ==
    [][\A t \in Threads :
          (LeavesLock(t, "disp_lock") /\ thr[t].hkey \notin DOMAIN users)
          => /\ thr'[t].out = "forbidden"
             /\ "op" \notin thr'[t].fx
             /\ users' = users]_vars

\* C4: when storage does not fail, a register with valid input returns
\* success if no register of that email has succeeded before, and Conflict
\* (account_exists) if one has
C4_RegisterTwice ==
    [][\A t \in Threads :
          (LeavesLock(t, "reg_lock") /\ "dbfail" \notin thr'[t].fx)
          => thr'[t].out =
                IF trim(thr[t].email) \in {r.email : r \in regOK}
                THEN "account_exists" ELSE "success"]_vars

\* an address without an "@" is malformed however it is padded
Malformed(email) == \A i \in 1..Len(email) : email[i] # "@"

\* the request is answered at once, with no effect on the server
RejectedWith(t, message) ==
    /\ thr'[t].pc = "done"
    /\ thr'[t].out = message
    /\ thr'[t].fx = {}
    /\ UNCHANGED <<mutex, poisoned, users, user_db, folders, issued, regOK>>

\* C5 as stated: an empty password is answered empty_password and a malformed
\* email is answered bad_email, in both cases before any storage access and
\* without the lock
C5_ValidationAsStated ==
    [][\A t \in Threads :
          IsRegisterCall(t) =>
            /\ (thr'[t].password = <<>> => RejectedWith(t, "empty_password"))
            /\ (Malformed(thr'[t].email) => RejectedWith(t, "bad_email"))]_vars

\* C5 amended: a password that is empty after trimming is answered
\* empty_password; a malformed email is answered bad_email when the password
\* is not empty after trimming; in both cases before any storage access and
\* without the lock
C5_Validation ==
    [][\A t \in Threads :
          IsRegisterCall(t) =>
            /\ (trim(thr'[t].password) = <<>>
                  => RejectedWith(t, "empty_password"))
            /\ (trim(thr'[t].password) # <<>>
                  /\ Malformed(thr'[t].email)
                  => RejectedWith(t, "bad_email"))]_vars

\* one register was answered empty_password and another bad_email
C5_Witness ==
    \E t, u \in Threads :
        /\ thr[t].op = "register" /\ thr[t].out = "empty_password"
        /\ thr[t].password = <<" ">>
        /\ thr[u].op = "register" /\ thr[u].out = "bad_email"
        /\ Malformed(thr[u].email)

\* C6: a login with the email of a registered account and a password that
\* differs from the one it was registered with returns Forbidden and leaves
\* the registry as it was; stated for the runs in which storage does not fail
C6_WrongPassword ==
    [][\A t \in Threads :
          ( /\ LeavesLock(t, "login_lock")
            /\ "dbfail" \notin thr'[t].fx
            /\ \E r \in regOK : r.email = thr[t].name
            /\ \A r \in regOK :
                 r.email = thr[t].name => r.password # thr[t].password )
          => thr'[t].out = "forbidden" /\ users' = users]_vars

\* C7: any two logins that returned a key for the same (name, password)
\* returned the same key
C7_KeyDeterminism ==
    \A a, b \in issued :
        (a.name = b.name /\ a.password = b.password) => a.key = b.key

\* a login returned a key for credentials that an earlier login had already
\* been given a key for, after an authenticated operation ran in between
C7_Witness ==
    \E t \in Threads :
        /\ thr[t].op = "login" /\ thr[t].pc = "done" /\ thr[t].out = "key"
        /\ "insert" \notin thr[t].fx
        /\ \E i \in issued :
             /\ i.name = thr[t].name /\ i.password = thr[t].password
             /\ i.key = thr[t].hkey
             /\ users[i.key].col # None

\* C8: a login that returns a key which already has a registry entry creates
\* no folder, opens no media handle, inserts nothing and leaves the registry,
\* the session objects included, as it was
C8_LoginIdempotent ==
    [][\A t \in Threads :
          ( /\ LeavesLock(t, "login_lock")
            /\ thr'[t].out = "key"
            /\ thr'[t].hkey \in DOMAIN users )
          => /\ users' = users
             /\ folders' = folders
             /\ thr'[t].fx \cap {"mkdir", "media", "insert"} = {}]_vars

\* a second login returned the key of a session whose collection and sync
\* state had been set by an authenticated operation, and they are still set
C8_Witness ==
    \E t \in Threads :
        /\ thr[t].op = "login" /\ thr[t].pc = "done" /\ thr[t].out = "key"
        /\ "insert" \notin thr[t].fx
        /\ thr[t].hkey \in DOMAIN users
        /\ users[thr[t].hkey].col = Some("col")
        /\ users[thr[t].hkey].sync_state = Some("sync")

\* C9: no step removes a registry entry, and a dispatch that presents a key
\* which a login has returned goes on to invoke its operation
C9_SessionsNeverRemoved ==
    [][/\ DOMAIN users \subseteq DOMAIN users'
       /\ \A t \in Threads :
            (LeavesLock(t, "disp_lock") /\ thr[t].hkey \in IssuedKeys)
            => thr'[t].pc = "disp_op"]_vars

\* C10: every call of register, login and dispatch_authenticated returns an
\* outcome, also after an operation body has unwound with the lock held: no
\* call aborts at the entry point
C10_NoAbort ==
    \A t \in Threads : thr[t].pc = "done" => thr[t].out # "panic"


\* the key get_host_key derives for the request thread t is serving
KeyOf(t) == derive_hkey(format(thr[t].name, thr[t].password))

PasswordUniverse ==
    {r.password : r \in LoginInputs} \cup {trim(r.password) : r \in RegisterInputs}

\* C12: every registry entry, with key K and session name N, has an account
\* with email N in the credential store whose password P gives K as the key
\* derived from (N, P)
C12_RegistryProvenance ==
    \A k \in DOMAIN users :
        \E row \in user_db, p \in PasswordUniverse :
            /\ row.email = users[k].name
            /\ row.password = Some(calculate_md5(p))
            /\ k = derive_hkey(format(users[k].name, p))

\* two sessions exist and a login with a wrong password has been refused
C12_Witness ==
    /\ Cardinality(DOMAIN users) = 2
    /\ \E t \in Threads :
         thr[t].op = "login" /\ thr[t].pc = "done" /\ thr[t].out = "forbidden"


\* the credential store has a row for the strings thread t sends
Verifies(t) ==
    \E row \in user_db :
        /\ row.email = thr[t].name
        /\ row.password = Some(calculate_md5(thr[t].password))

\* no storage or filesystem failure is among the effects of t's request
NoFailure(t) == thr'[t].fx \cap {"dbfail", "iofail"} = {}

\* C13: a register that ends in Conflict leaves the stored accounts as they
\* were; right afterwards a login with the password the account was
\* registered with returns a key, and a login with the rejected
\* registration's password, when no registration used it, returns Forbidden
\* (stated for the runs without storage or filesystem failure)
C13_ConflictKeepsAccount ==
    [][\A t \in Threads :
          /\ (LeavesLock(t, "reg_lock") /\ thr'[t].out = "account_exists")
             => user_db' = user_db
          /\ \A u \in Threads \ {t} :
               ( /\ LeavesLock(t, "login_lock")
                 /\ NoFailure(t)
                 /\ thr[u].op = "register"
                 /\ thr[u].out = "account_exists"
                 /\ thr[u].fresh
                 /\ trim(thr[u].email) = thr[t].name )
               => /\ (\E r \in regOK : /\ r.email = thr[t].name
                                       /\ r.password = thr[t].password)
                     => thr'[t].out = "key"
                  /\ ( /\ thr[t].password = thr[u].password
                       /\ \A r \in regOK : r.email = thr[t].name
                                             => r.password # thr[u].password )
                     => thr'[t].out = "forbidden"]_vars

\* C15: no step of login or register under the lock happens while an
\* operation body is executing; of two logins with the same, verifying
\* credentials that wait for the lock together, the first returns the key
\* and leaves an entry under it, and the second returns the same key and
\* leaves the registry as it is (stated for the runs without storage or
\* filesystem failure)
C15_LoginAtomic ==
    [][\A t \in Threads :
          /\ (LeavesLock(t, "login_lock") \/ LeavesLock(t, "reg_lock"))
             => \A u \in Threads : thr[u].pc # "disp_op"
          /\ \A u \in Threads \ {t} :
               /\ ( /\ LeavesLock(t, "login_lock")
                    /\ NoFailure(t)
                    /\ Verifies(t)
                    /\ thr[u].pc = "login_lock"
                    /\ thr[u].name = thr[t].name
                    /\ thr[u].password = thr[t].password )
                  => /\ thr'[t].out = "key"
                     /\ thr'[t].hkey \in DOMAIN users'
               /\ ( /\ LeavesLock(t, "login_lock")
                    /\ NoFailure(t)
                    /\ thr[u].op = "login" /\ thr[u].pc = "done"
                    /\ thr[u].out = "key" /\ thr[u].fresh
                    /\ thr[u].name = thr[t].name
                    /\ thr[u].password = thr[t].password )
                  => /\ thr'[t].out = "key"
                     /\ thr'[t].hkey = thr[u].hkey
                     /\ users' = users]_vars

\* C17: of two registers of the same valid email that wait for the lock
\* together, the first returns success when the store has no account for the
\* email, and the second returns Conflict; the store never holds two
\* accounts with one email (stated for the runs without storage failure)
C17_ConcurrentRegister ==
    [][/\ \A r1, r2 \in user_db' : r1.email = r2.email => r1 = r2
       /\ \A t \in Threads : \A u \in Threads \ {t} :
            /\ ( /\ LeavesLock(t, "reg_lock")
                 /\ NoFailure(t)
                 /\ thr[u].pc = "reg_lock"
                 /\ trim(thr[u].email) = trim(thr[t].email)
                 /\ \A row \in user_db : row.email # trim(thr[t].email) )
               => thr'[t].out = "success"
            /\ ( /\ LeavesLock(t, "reg_lock")
                 /\ NoFailure(t)
                 /\ thr[u].op = "register" /\ thr[u].pc = "done"
                 /\ thr[u].out = "success" /\ thr[u].fresh
                 /\ trim(thr[u].email) = trim(thr[t].email) )
               => thr'[t].out = "account_exists"]_vars

\* C18: register leaves the registry alone; login leaves the credential
\* store alone and changes the registry at most by adding an entry under the
\* key derived from its strings; dispatch leaves the credential store and
\* the registry keys alone and changes no session object but the one under
\* the key it presented
C18_Frames ==
    [][\A t \in Threads :
          /\ (thr[t].pc \in {"idle", "done"} /\ thr'[t].pc \notin {"idle", "done"})
             => users' = users /\ user_db' = user_db
          /\ LeavesLock(t, "reg_lock") => users' = users
          /\ LeavesLock(t, "login_lock")
             => /\ user_db' = user_db
                /\ DOMAIN users' \in {DOMAIN users, DOMAIN users \cup {KeyOf(t)}}
                /\ \A k \in DOMAIN users : users'[k] = users[k]
          /\ (LeavesLock(t, "disp_lock") \/ LeavesLock(t, "disp_op"))
             => /\ user_db' = user_db
                /\ DOMAIN users' = DOMAIN users
                /\ \A k \in DOMAIN users \ {thr[t].hkey} : users'[k] = users[k]]_vars

\* two sessions exist; an operation has set the state of one of them and the
\* other still has the state it was created with
C18_Witness ==
    \E k1, k2 \in DOMAIN users :
        /\ k1 # k2
        /\ users[k1].col = Some("col")
        /\ users[k2].col = None
        /\ \E t \in Threads :
             thr[t].op = "dispatch" /\ thr[t].out \in {"op_ok", "op_err"}


\* C14: create_user handed a key the registry already holds succeeds, leaves
\* the registry as it is, and neither creates the folder nor opens the media
\* handle
C14_CreateExistingNoOp ==
    [][\A t \in Threads :
          ( /\ thr'[t].op = "create_user"
            /\ thr'[t] # thr[t]
            /\ thr'[t].fresh
            /\ thr'[t].hkey \in DOMAIN users )
          => /\ thr'[t].out = "ok"
             /\ users' = users
             /\ folders' = folders
             /\ thr'[t].fx \cap {"mkdir", "media", "iofail"} = {}]_vars


\* thread t is inside an entry point and waits for the lock
Waiting(t) == thr[t].pc \in {"reg_lock", "login_lock", "disp_lock"}

\* the lock is held only by a thread that is executing an operation body
LockHeldByBody ==
    /\ mutex # NoThread => thr[mutex].pc = "disp_op"
    /\ (\A t \in Threads : thr[t].pc \in {"idle", "done"}) => mutex = NoThread

\* C16: whatever the outcome of a request, the lock is free once it has
\* returned, so the lock is free whenever no request is inside an entry
\* point; and, operation bodies finishing, a request that waits for the lock
\* gets past the wait
C16_LockReleased ==
    /\ []LockHeldByBody
    /\ \A t \in Threads : Waiting(t) ~> ~Waiting(t)

\* a request waits for the lock while the requests of the other thread have
\* returned Forbidden, Conflict or Internal, and the lock is free
C16_Witness ==
    \E t \in Threads : \E u \in Threads \ {t} :
        /\ Waiting(t)
        /\ thr[u].pc = "done"
        /\ thr[u].out \in {"forbidden", "account_exists", "internal"}
        /\ mutex = NoThread

====
